---- MODULE Spec2Model ----
(***************************************************************************)
(* A model of ascii-3d: geometry.py (Vertex, Geometry) and renderer.py     *)
(* (Camera, Scene, main).                                                  *)
(*                                                                         *)
(* Numbers.  The program computes in IEEE doubles; the model computes in   *)
(* exact rationals held as integers:                                       *)
(*   - a tessellated point holds its coordinates as numerators over the    *)
(*     denominator `den` of the sampling interval num/den that made it;    *)
(*   - a projected point holds x and y as numerators over its own          *)
(*     denominator q, and its depth in units of 1/Unit;                    *)
(*   - an angle is a whole number of quarter turns, for which cos and sin  *)
(*     are -1, 0 or 1.                                                     *)
(* Rounding error of the doubles (of the order of 1e-16) is not modelled.  *)
(* The sampling loops were run in doubles for the intervals used here      *)
(* (1/10, 1/4, 1/2, 3/4, 1): they take the same number of iterations as    *)
(* the exact loops.                                                        *)
(***************************************************************************)
EXTENDS Integers, Sequences, FiniteSets, TLC

(***************************************************************************)
(* Program constants.                                                      *)
(***************************************************************************)
\* Camera.DOF
DOF == 25
\* Camera.MAX_DEPTH
MAX_DEPTH == 1000
\* Camera.ILLUM_CHAR
ILLUM_CHAR == <<" ", ".", ",", "-", "~", ":", ";", "=", "!", "*", "#", "$", "@">>
\* the value render stores in a depth cell no point has reached
UNSET == -1
\* the color pair Scene.__init__ stores in every color cell
DEFAULT_COLOR == 1
\* generate_surfaces's default interval is 0.1 = 1/Unit; render uses it, so
\* the points render handles have coordinates in units of 1/Unit
Unit == 10

(***************************************************************************)
(* Bounds of the model.                                                    *)
(***************************************************************************)
\* iterations one `while` loop of the tessellation may take before the model
\* stops following it and reports the call as still running
MaxLoop == 12
\* frames main's loop renders before the model stops following it
MaxFrames == 2
\* control vertices of a geometry a tessellation call is made on
MaxVertices == 3

(***************************************************************************)
(* Arithmetic helpers: math.floor and math.ceil of a rational a/b, b > 0.  *)
(***************************************************************************)
floor(a, b) == a \div b

ceil(a, b) == -((-a) \div b)

Min(S) == CHOOSE m \in S : \A n \in S : m <= n

(***************************************************************************)
(* geometry.py: Vertex                                                     *)
(***************************************************************************)
\* Vertex.__init__: the color defaults to 0
Vertex(x, y, z, color) == [v |-> <<x, y, z>>, color |-> color]

\* Vertex.from_ndarray: a 3-vector becomes a Vertex of color 0
from_ndarray(v) == Vertex(v[1], v[2], v[3], 0)

\* np.cos and np.sin of k quarter turns
cos4(k) == <<1, 0, -1, 0>>[(k % 4) + 1]

sin4(k) == <<0, 1, 0, -1>>[(k % 4) + 1]

\* the matrix R of Vertex.rotate_about_origin
RotationMatrix(alpha, beta, gamma) ==
    LET cA == cos4(alpha)
        sA == sin4(alpha)
        cB == cos4(beta)
        sB == sin4(beta)
        cG == cos4(gamma)
        sG == sin4(gamma)
    IN << <<cB*cG, (sA*sB*cG) - (cA*sG), (cA*sB*cG) + (sA*sG)>>,
          <<cB*sG, (sA*sB*sG) + (cA*cG), (cA*sB*sG) - (sA*cG)>>,
          <<-sB, sA*cB, cA*cB>> >>

\* np.matmul(R, w) for a 3x3 matrix and a 3-vector
matmul(R, w) == [r \in 1..3 |-> R[r][1]*w[1] + R[r][2]*w[2] + R[r][3]*w[3]]

\* Vertex.rotate_about_origin: R (v - origin) + origin
rotate_about_origin(vtx, origin, alpha, beta, gamma) ==
    LET R == RotationMatrix(alpha, beta, gamma)
        d == [c \in 1..3 |-> vtx.v[c] - origin.v[c]]
        r == matmul(R, d)
    IN from_ndarray([c \in 1..3 |-> r[c] + origin.v[c]])

\* the usual weights, v0*(1-t) + v1*t, which Vertex.lerp does not use
lerp_swapped(v0, v1, tn, den) ==
    from_ndarray([c \in 1..3 |-> (v0.v[c] * (den - tn)) + (v1.v[c] * tn)])

\* Vertex.lerp at t = tn/den: v0*t + v1*(1-t), coordinates over den
lerp(v0, v1, tn, den) ==
    from_ndarray([c \in 1..3 |-> (v0.v[c] * tn) + (v1.v[c] * (den - tn))])

RECURSIVE SumSeq(_)
SumSeq(s) == IF s = <<>> THEN 0 ELSE Head(s) + SumSeq(Tail(s))

\* Vertex.lerp_gen: the weighted sum of the vertices, coordinates over den.
\* Its two checks (the coefficients sum to 1, one coefficient per vertex)
\* pass for every call generate_surfaces makes: three vertices, and
\* coeff0 + coeff1 + (1 - coeff0 - coeff1).
lerp_gen(vertices, coeffs, den) ==
    from_ndarray([c \in 1..3 |->
        SumSeq([n \in 1..Len(vertices) |-> vertices[n].v[c] * coeffs[n]])])

\* `v.color = self.color` of the tessellation loops
SetColor(vtx, color) == [vtx EXCEPT !.color = color]

(***************************************************************************)
(* geometry.py: Geometry                                                   *)
(***************************************************************************)
\* Geometry.__init__ with origin None: the pivot is the first vertex
Geometry(vertices, color) ==
    [vertices |-> vertices, origin |-> vertices[1], color |-> color]

\* the validation that opens generate_edges and generate_surfaces
interval_invalid(num, den) == num < 0 \/ num > den

\* `x in lst` for a Python list
InList(x, lst) == \E n \in 1..Len(lst) : lst[n] = x

\* the result of a tessellation call: status is "error" (the ValueError of the
\* validation), "ok" (returned lerp_geom) or "running" (a loop has taken
\* MaxLoop iterations and is still in progress); points is lerp_geom and
\* swept is the local list `pairs` or `triples`
TessResult(status, points, swept) ==
    [status |-> status, points |-> points, swept |-> swept]

\* generate_edges, `while t <= 1` (lines 114-119): the points emitted from
\* t = tn/den on, and whether the loop has ended
RECURSIVE sweep_t(_, _, _, _, _, _, _)
sweep_t(v0, v1, color, tn, num, den, fuel) ==
    IF ~(tn <= den) THEN [pts |-> <<>>, done |-> TRUE]
    ELSE IF fuel = 0 THEN [pts |-> <<>>, done |-> FALSE]
    ELSE LET v == SetColor(lerp(v0, v1, tn, den), color)
             rest == sweep_t(v0, v1, color, tn + num, num, den, fuel - 1)
         IN [pts |-> <<v>> \o rest.pts, done |-> rest.done]

\* a test that would let (j, i) through after (i, j)
edge_skip_no_reverse(i, j, pairs) == i = j \/ InList(<<i, j>>, pairs)

\* generate_edges, the test that skips a pair (line 109)
edge_skip(i, j, pairs) ==
    i = j \/ InList(<<i, j>>, pairs) \/ InList(<<j, i>>, pairs)

\* generate_edges, the loops over i and j (lines 107-119) from the m-th
\* (i, j) on, in the order the loops take them; indices count from 0
RECURSIVE edges_loop(_, _, _, _, _, _)
edges_loop(geom, num, den, m, pairs, lerp_geom) ==
    LET n == Len(geom.vertices)
        i == m \div n
        j == m % n
    IN IF m >= n * n THEN TessResult("ok", lerp_geom, pairs)
       ELSE IF edge_skip(i, j, pairs)
            THEN edges_loop(geom, num, den, m + 1, pairs, lerp_geom)
       ELSE LET v0 == geom.vertices[i + 1]
                v1 == geom.vertices[j + 1]
                s == sweep_t(v0, v1, geom.color, 0, num, den, MaxLoop)
                pairs1 == Append(pairs, <<i, j>>)
            IN IF s.done
               THEN edges_loop(geom, num, den, m + 1, pairs1, lerp_geom \o s.pts)
               ELSE TessResult("running", lerp_geom \o s.pts, pairs1)

\* Geometry.generate_edges(interval = num/den)
generate_edges(geom, num, den) ==
    IF interval_invalid(num, den) THEN TessResult("error", <<>>, <<>>)
    ELSE edges_loop(geom, num, den, 0, <<>>, <<>>)

\* generate_surfaces, `while coeff1 <= (1.0 - coeff0)` (lines 143-149)
RECURSIVE sweep_coeff1(_, _, _, _, _, _, _)
sweep_coeff1(vertices, color, coeff0, coeff1, num, den, fuel) ==
    IF ~(coeff1 <= den - coeff0) THEN [pts |-> <<>>, done |-> TRUE]
    ELSE IF fuel = 0 THEN [pts |-> <<>>, done |-> FALSE]
    ELSE LET coeff2 == den - coeff0 - coeff1
             coeffs == <<coeff0, coeff1, coeff2>>
             v == SetColor(lerp_gen(vertices, coeffs, den), color)
             rest == sweep_coeff1(vertices, color, coeff0, coeff1 + num,
                                  num, den, fuel - 1)
         IN [pts |-> <<v>> \o rest.pts, done |-> rest.done]

\* generate_surfaces, `while coeff0 <= 1.0` (lines 141-150)
RECURSIVE sweep_coeff0(_, _, _, _, _, _)
sweep_coeff0(vertices, color, coeff0, num, den, fuel) ==
    IF ~(coeff0 <= den) THEN [pts |-> <<>>, done |-> TRUE]
    ELSE IF fuel = 0 THEN [pts |-> <<>>, done |-> FALSE]
    ELSE LET inner == sweep_coeff1(vertices, color, coeff0, 0, num, den, MaxLoop)
         IN IF ~inner.done THEN inner
            ELSE LET rest == sweep_coeff0(vertices, color, coeff0 + num,
                                          num, den, fuel - 1)
                 IN [pts |-> inner.pts \o rest.pts, done |-> rest.done]

\* generate_surfaces, the test that skips a triple (line 134)
triple_skip(i, j, k, triples) ==
    \/ InList(<<i, j, k>>, triples) \/ InList(<<i, k, j>>, triples)
    \/ InList(<<j, i, k>>, triples) \/ InList(<<j, k, i>>, triples)
    \/ InList(<<k, i, j>>, triples) \/ InList(<<k, j, i>>, triples)

\* generate_surfaces, the loops over i, j and k (lines 131-150) from the
\* m-th (i, j, k) on; indices count from 0
RECURSIVE surfaces_loop(_, _, _, _, _, _)
surfaces_loop(geom, num, den, m, triples, lerp_geom) ==
    LET n == Len(geom.vertices)
        i == m \div (n * n)
        j == (m \div n) % n
        k == m % n
    IN IF m >= n * n * n THEN TessResult("ok", lerp_geom, triples)
       ELSE IF triple_skip(i, j, k, triples)
            THEN surfaces_loop(geom, num, den, m + 1, triples, lerp_geom)
       ELSE LET vertices == <<geom.vertices[i + 1], geom.vertices[j + 1],
                              geom.vertices[k + 1]>>
                s == sweep_coeff0(vertices, geom.color, 0, num, den, MaxLoop)
                triples1 == Append(triples, <<i, j, k>>)
            IN IF s.done
               THEN surfaces_loop(geom, num, den, m + 1, triples1,
                                  lerp_geom \o s.pts)
               ELSE TessResult("running", lerp_geom \o s.pts, triples1)

\* Geometry.generate_surfaces(interval = num/den)
generate_surfaces(geom, num, den) ==
    IF interval_invalid(num, den) THEN TessResult("error", <<>>, <<>>)
    ELSE surfaces_loop(geom, num, den, 0, <<>>, <<>>)

\* Geometry.rotate: every control vertex is rotated about the pivot
Geometry_rotate(geom, alpha, beta, gamma) ==
    [geom EXCEPT !.vertices =
        [n \in 1..Len(geom.vertices) |->
            rotate_about_origin(geom.vertices[n], geom.origin, alpha, beta, gamma)]]

(***************************************************************************)
(* renderer.py: Camera                                                     *)
(***************************************************************************)
\* Camera.OUT_OF_SCREEN_VTX = Vertex(0, 0, MAX_DEPTH+1), as a projected point:
\* x = 0/1, y = 0/1, depth MAX_DEPTH+1 in units of 1/Unit, color 0
OUT_OF_SCREEN_VTX == [v |-> <<0, 0, (MAX_DEPTH + 1) * Unit>>, q |-> 1, color |-> 0]

\* Camera.project of a point whose coordinates are in units of 1/Unit.
\* depth = z - camera.z; ratio = DOF / (depth + DOF), so that
\* ratio * x = DOF * X / (D + DOF * Unit) for x = X/Unit and depth = D/Unit.
\* The result is x = v[1]/q, y = v[2]/q, depth = v[3]/Unit.
project(pos, vtx) ==
    LET depth == vtx.v[3] - (pos.v[3] * Unit)
    IN IF depth <= 0 THEN OUT_OF_SCREEN_VTX
       ELSE [v |-> <<DOF * vtx.v[1], DOF * vtx.v[2], depth>>,
             q |-> depth + (DOF * Unit),
             color |-> vtx.color]

\* Camera.getIllum, line 38: idx for a depth in units of 1/Unit
illum_idx(depth) == ceil(depth * Len(ILLUM_CHAR), MAX_DEPTH * Unit)

\* Python's s[k] on a sequence of length len: the indices that do not raise
\* IndexError, and the position (from 1) a valid one reads
index_in_range(len, k) == -len <= k /\ k < len

index_position(len, k) == IF k >= 0 THEN k + 1 ELSE len + k + 1

\* Camera.getIllum, line 39: ILLUM_CHAR[-idx] raises IndexError or reads
getIllum_raises(depth) == ~index_in_range(Len(ILLUM_CHAR), -illum_idx(depth))

getIllum(depth) == ILLUM_CHAR[index_position(Len(ILLUM_CHAR), -illum_idx(depth))]

(***************************************************************************)
(* renderer.py: Scene                                                      *)
(***************************************************************************)
\* a grid of H rows of W cells, all holding val (lines 82, 83, 89)
Grid(W, H, val) == [y \in 0..(H - 1) |-> [x \in 0..(W - 1) |-> val]]

\* a pixel that would round the half size up
pixel_half_up(cn, q, size) == floor(cn + (((size + 1) \div 2) * q), q)

\* render, lines 94-95: floor(coord + (size // 2)) for coord = cn/q
pixel(cn, q, size) == floor(cn + ((size \div 2) * q), q)

\* render, line 98: the point is skipped
out_of_window(x, y, W, H) == x < 0 \/ y < 0 \/ x >= W \/ y >= H

\* a depth test that would let a point of equal depth replace the stored one
depth_test_or_equal(depth, stored) == depth <= stored \/ stored = UNSET * Unit

\* render, line 102: the depth test
depth_test(depth, stored) == depth < stored \/ stored = UNSET * Unit

\* render, lines 93-104: one iteration of `for coord in coords`;
\* bufs holds depth_buffer and color_buffer
raster_point(bufs, pos, W, H, vtx) ==
    LET coord == project(pos, vtx)
        x == pixel(coord.v[1], coord.q, W)
        y == pixel(coord.v[2], coord.q, H)
        depth == coord.v[3]
    IN IF out_of_window(x, y, W, H) THEN bufs
       ELSE IF depth_test(depth, bufs.depth[y][x])
            THEN [depth |-> [bufs.depth EXCEPT ![y][x] = depth],
                  color |-> [bufs.color EXCEPT ![y][x] = coord.color]]
            ELSE bufs

\* render, lines 92-104: `for coord in coords` over coords[lo..hi], in order.
\* The range is taken in two halves, and the test on `first` makes TLC, which
\* evaluates arguments only when they are used, finish the first half before
\* it starts the second: the evaluation then nests log(hi - lo) deep, not
\* once per point.
RECURSIVE raster_coords(_, _, _, _, _, _, _)
raster_coords(bufs, pos, W, H, coords, lo, hi) ==
    IF lo > hi THEN bufs
    ELSE IF lo = hi THEN raster_point(bufs, pos, W, H, coords[lo])
    ELSE LET mid == (lo + hi) \div 2
             first == raster_coords(bufs, pos, W, H, coords, lo, mid)
         IN IF first = first
            THEN raster_coords(first, pos, W, H, coords, mid + 1, hi)
            ELSE first

\* render, lines 91-104: one iteration of `for geom in self.geometry`
raster_geometry(bufs, pos, W, H, geom) ==
    LET coords == generate_surfaces(geom, 1, Unit).points
    IN raster_coords(bufs, pos, W, H, coords, 1, Len(coords))

\* render, lines 107-112: the cells (y, x) in the order the loops take them
cell_before(c, d) == c[1] < d[1] \/ (c[1] = d[1] /\ c[2] < d[2])

\* the cells whose getIllum raises IndexError
raising_cells(depths, W, H) ==
    {c \in (0..(H - 1)) \X (0..(W - 1)) : getIllum_raises(depths[c[1]][c[2]])}

\* the first of them in loop order
first_raising(depths, W, H) ==
    CHOOSE c \in raising_cells(depths, W, H) :
        \A d \in raising_cells(depths, W, H) : c = d \/ cell_before(c, d)

\* render, lines 107-112: the window after the loops, which end at the first
\* IndexError; addstr writes the character and the color pair of the cell
flush_cells(win, depths, colors, W, H) ==
    LET bad == raising_cells(depths, W, H)
    IN [y \in 0..(H - 1) |-> [x \in 0..(W - 1) |->
          IF bad = {} \/ cell_before(<<y, x>>, first_raising(depths, W, H))
          THEN <<getIllum(depths[y][x]), colors[y][x]>>
          ELSE win[y][x]]]

(***************************************************************************)
(* State.                                                                  *)
(***************************************************************************)
VARIABLES
    geometry,       \* Scene.geometry: the list of Geometry
    cam,            \* main's Camera: its pos
    window_width,   \* Scene.window_width
    window_height,  \* Scene.window_height
    depth_buffer,   \* Scene.depth_buffer, depths in units of 1/Unit
    color_buffer,   \* Scene.color_buffer
    window,         \* what addstr has written to the curses window
    screen,         \* what the terminal shows: the window at its last refresh
    pc,             \* where main is
    geom_idx,       \* render's position in `for geom in self.geometry`
    frames,         \* the number of frames render has completed
    log,            \* the messages main has logged
    t_geom,         \* the Geometry a tessellation call is made on
    t_interval,     \* its interval, <<num, den>> for num/den
    t_call,         \* the call made: "none", "edges" or "surfaces"
    t_result        \* what the call produced

vars == <<geometry, cam, window_width, window_height, depth_buffer,
          color_buffer, window, screen, pc, geom_idx, frames, log,
          t_geom, t_interval, t_call, t_result>>

render_vars == <<geometry, cam, window_width, window_height, depth_buffer,
                 color_buffer, window, screen, pc, geom_idx, frames, log>>

tess_vars == <<t_geom, t_interval, t_call, t_result>>

(***************************************************************************)
(* Inputs.                                                                 *)
(***************************************************************************)
\* the geometries scenes are made of
\* a far line, of color 2
FarLine == Geometry(<<Vertex(-4, 0, 20, 0), Vertex(4, 0, 20, 0)>>, 2)

\* the same line, of color 3
SameLine == Geometry(<<Vertex(-4, 0, 20, 0), Vertex(4, 0, 20, 0)>>, 3)

\* a nearer and shorter line in front of a part of it
NearLine == Geometry(<<Vertex(1, 0, 10, 0), Vertex(3, 0, 10, 0)>>, 4)

\* a line behind the camera
BehindLine == Geometry(<<Vertex(0, 0, -10, 0), Vertex(1, 1, -20, 0)>>, 5)

\* a line beyond MAX_DEPTH
DeepLine == Geometry(<<Vertex(0, 0, 1100, 0), Vertex(0, 0, 1200, 0)>>, 6)

\* a triangle
Triangle ==
    Geometry(<<Vertex(-4, -2, 20, 0), Vertex(4, -2, 20, 0), Vertex(0, 2, 30, 0)>>, 7)

\* the lists of the members of a set, in every order
AllOrders(S) ==
    { s \in [1..Cardinality(S) -> S] : \A a, b \in DOMAIN s : a # b => s[a] # s[b] }

\* the scenes: each of these sets of geometries, added in every order
Scenes ==
    UNION { AllOrders(S) : S \in
        { {FarLine}, {NearLine}, {BehindLine}, {DeepLine}, {Triangle},
          {FarLine, SameLine}, {FarLine, NearLine}, {FarLine, BehindLine},
          {FarLine, Triangle}, {FarLine, SameLine, NearLine} } }

\* the sizes <<W, H>> window.getmaxyx() reports
WindowSizes == { <<4, 2>>, <<3, 3>> }

\* the angles <<alpha, beta, gamma>> of main's rotate, in quarter turns
Rotations == { <<0, 1, 0>>, <<1, 0, 0>>, <<0, 0, 1>> }

\* the control vertices and the geometries tessellation calls are made on
TessVertices ==
    { Vertex(-10, 0, 3, 0), Vertex(10, -10, 20, 0), Vertex(10, 10, 20, 0) }

TessGeometries ==
    { Geometry(vs, 2) : vs \in UNION { [1..n -> TessVertices] : n \in 2..MaxVertices } }

\* the intervals of the calls, <<num, den>> for num/den
Intervals ==
    { <<-1, 4>>, <<0, 1>>, <<1, 10>>, <<1, 4>>, <<1, 2>>, <<3, 4>>, <<1, 1>>, <<5, 4>> }

NoResult == [status |-> "none", points |-> <<>>, swept |-> <<>>]

(***************************************************************************)
(* main and Scene.render.                                                  *)
(***************************************************************************)
\* main, lines 119-140, and Scene.__init__, lines 78-83
Init ==
    /\ geometry \in Scenes
    /\ cam = Vertex(0, 0, -5, 0)
    /\ \E size \in WindowSizes :
        /\ window_width = size[1]
        /\ window_height = size[2]
        /\ depth_buffer = Grid(size[1], size[2], UNSET * Unit)
        /\ color_buffer = Grid(size[1], size[2], DEFAULT_COLOR)
        /\ window = Grid(size[1], size[2], <<" ", 0>>)
        /\ screen = Grid(size[1], size[2], <<" ", 0>>)
    /\ pc = "render"
    /\ geom_idx = 0
    /\ frames = 0
    /\ log = <<>>
    /\ t_geom = Geometry(<<Vertex(0, 0, 0, 0), Vertex(0, 0, 0, 0)>>, 0)
    /\ t_interval = <<1, 1>>
    /\ t_call = "none"
    /\ t_result = NoResult

\* render, line 89: only the depth buffer is rebuilt
RenderReset ==
    /\ pc = "render"
    /\ depth_buffer' = Grid(window_width, window_height, UNSET * Unit)
    /\ geom_idx' = 1
    /\ pc' = IF Len(geometry) = 0 THEN "flush" ELSE "raster"
    /\ UNCHANGED <<geometry, cam, window_width, window_height, color_buffer,
                   window, screen, frames, log, tess_vars>>

\* render, lines 90-104: one geometry is tessellated, projected and
\* depth-tested into the buffers
RenderGeometry ==
    /\ pc = "raster"
    /\ LET bufs == raster_geometry([depth |-> depth_buffer, color |-> color_buffer],
                                   cam, window_width, window_height,
                                   geometry[geom_idx])
       IN /\ depth_buffer' = bufs.depth
          /\ color_buffer' = bufs.color
    /\ geom_idx' = geom_idx + 1
    /\ pc' = IF geom_idx = Len(geometry) THEN "flush" ELSE "raster"
    /\ UNCHANGED <<geometry, cam, window_width, window_height, window, screen,
                   frames, log, tess_vars>>

\* render, lines 107-112: every cell is written to the window; an IndexError
\* of getIllum is not a curses.error, leaves render and main's loop and is
\* logged by main, lines 150-152
RenderFlush ==
    /\ pc = "flush"
    /\ window' = flush_cells(window, depth_buffer, color_buffer,
                             window_width, window_height)
    /\ IF raising_cells(depth_buffer, window_width, window_height) = {}
       THEN /\ pc' = "refresh"
            /\ log' = log
       ELSE /\ pc' = "failed"
            /\ log' = log \o <<"Exiting due to exception.", "IndexError">>
    /\ UNCHANGED <<geometry, cam, window_width, window_height, depth_buffer,
                   color_buffer, screen, geom_idx, frames, tess_vars>>

\* render, line 115: the terminal shows the window
RenderRefresh ==
    /\ pc = "refresh"
    /\ screen' = window
    /\ frames' = frames + 1
    /\ pc' = "rotate"
    /\ UNCHANGED <<geometry, cam, window_width, window_height, depth_buffer,
                   color_buffer, window, geom_idx, log, tess_vars>>

\* main, line 146: the geometry added last is rotated about its pivot
Rotate ==
    /\ pc = "rotate"
    /\ \E r \in Rotations :
        geometry' = [geometry EXCEPT ![Len(geometry)] =
                        Geometry_rotate(@, r[1], r[2], r[3])]
    /\ pc' = "sleep"
    /\ UNCHANGED <<cam, window_width, window_height, depth_buffer, color_buffer,
                   window, screen, geom_idx, frames, log, tess_vars>>

\* main, lines 147 and 144: after the delay the loop renders again
Sleep ==
    /\ pc = "sleep"
    /\ frames < MaxFrames
    /\ pc' = "render"
    /\ UNCHANGED <<geometry, cam, window_width, window_height, depth_buffer,
                   color_buffer, window, screen, geom_idx, frames, log, tess_vars>>

\* main's positions inside `try:` (lines 143-147)
InTry == {"render", "raster", "flush", "refresh", "rotate", "sleep"}

\* main, lines 148-149: Python raises KeyboardInterrupt in the main thread
\* wherever it is; the handler encloses the whole loop
KeyboardInterrupt ==
    /\ pc \in InTry
    /\ pc' = "interrupted"
    /\ log' = Append(log, "Exiting due to interrupt.")
    /\ UNCHANGED <<geometry, cam, window_width, window_height, depth_buffer,
                   color_buffer, window, screen, geom_idx, frames, tess_vars>>

Next ==
    \/ RenderReset
    \/ RenderGeometry
    \/ RenderFlush
    \/ RenderRefresh
    \/ Rotate
    \/ Sleep
    \/ KeyboardInterrupt

Spec == Init /\ [][Next]_vars

(***************************************************************************)
(* Calls of the tessellation functions.                                    *)
(***************************************************************************)
TessInit ==
    /\ t_geom \in TessGeometries
    /\ t_interval \in Intervals
    /\ t_call = "none"
    /\ t_result = NoResult
    /\ geometry = <<>>
    /\ cam = Vertex(0, 0, -5, 0)
    /\ window_width = 0
    /\ window_height = 0
    /\ depth_buffer = <<>>
    /\ color_buffer = <<>>
    /\ window = <<>>
    /\ screen = <<>>
    /\ pc = "tess"
    /\ geom_idx = 0
    /\ frames = 0
    /\ log = <<>>

CallGenerateEdges ==
    /\ t_call = "none"
    /\ t_call' = "edges"
    /\ t_result' = generate_edges(t_geom, t_interval[1], t_interval[2])
    /\ UNCHANGED <<t_geom, t_interval, render_vars>>

CallGenerateSurfaces ==
    /\ t_call = "none"
    /\ t_call' = "surfaces"
    /\ t_result' = generate_surfaces(t_geom, t_interval[1], t_interval[2])
    /\ UNCHANGED <<t_geom, t_interval, render_vars>>

TessNext ==
    \/ CallGenerateEdges
    \/ CallGenerateSurfaces

SpecTess == TessInit /\ [][TessNext]_vars

(***************************************************************************)
(* What the claims speak of.                                               *)
(***************************************************************************)
\* the cells <<y, x>> of the window
Cells == (0..(window_height - 1)) \X (0..(window_width - 1))

\* the points render handles in the current frame, in the order it handles
\* them: the tessellation of every geometry of the scene, in scene order
RECURSIVE CoordsFrom(_)
CoordsFrom(n) ==
    IF n > Len(geometry) THEN <<>>
    ELSE generate_surfaces(geometry[n], 1, Unit).points \o CoordsFrom(n + 1)

\* the same points as render sees them: the cell <<y, x>> it maps the
\* projected point to, the depth and color of the projected point, and
\* whether the point lies in front of the camera
FramePoints ==
    LET coords == CoordsFrom(1)
    IN [n \in 1..Len(coords) |->
          LET p == project(cam, coords[n])
          IN [cell |-> <<pixel(p.v[2], p.q, window_height),
                         pixel(p.v[1], p.q, window_width)>>,
              x |-> <<p.v[1], p.q>>,
              y |-> <<p.v[2], p.q>>,
              depth |-> p.v[3],
              color |-> p.color,
              front |-> coords[n].v[3] - (cam.v[3] * Unit) > 0]]

\* render has handled every geometry of the frame and not yet flushed
Rasterized == pc = "flush"

\* the points of P that render maps to cell c
Hits(P, c) == { n \in DOMAIN P : P[n].cell = c }

\* C1: after the last geometry of a frame, a cell no point was mapped to is
\* unset; any other cell holds the least depth of the points mapped to it,
\* whatever the order of the geometries, and the color of the first point in
\* processing order that has this depth: a nearer point replaces a farther
\* one, a later point of equal depth replaces nothing.
C1_NearestPointWins ==
    Rasterized =>
        LET P == FramePoints
        IN \A c \in Cells :
            LET hits == Hits(P, c)
            IN IF hits = {}
               THEN depth_buffer[c[1]][c[2]] = UNSET * Unit
               ELSE LET dmin == Min({ P[n].depth : n \in hits })
                        first == Min({ n \in hits : P[n].depth = dmin })
                    IN /\ depth_buffer[c[1]][c[2]] = dmin
                       /\ color_buffer[c[1]][c[2]] = P[first].color

\* C1's case: in one frame a cell was first given a point and later a nearer
\* one of another color, which it shows; and a cell was given two points of
\* equal depth and different colors, and shows the first.
C1_Witness ==
    /\ Rasterized
    /\ LET P == FramePoints
       IN /\ \E c \in Cells : \E i, j \in Hits(P, c) :
                /\ i < j
                /\ P[j].depth < P[i].depth
                /\ P[j].color # P[i].color
                /\ depth_buffer[c[1]][c[2]] = P[j].depth
                /\ color_buffer[c[1]][c[2]] = P[j].color
          /\ \E c \in Cells : \E i, j \in Hits(P, c) :
                /\ i < j
                /\ P[j].depth = P[i].depth
                /\ P[j].color # P[i].color
                /\ depth_buffer[c[1]][c[2]] = P[i].depth
                /\ color_buffer[c[1]][c[2]] = P[i].color

\* C2: a point whose depth v.z - camera.z is <= 0 is never rasterized: after
\* the last geometry of a frame, every cell that is set holds the depth of a
\* point in front of the camera that render mapped to it.
C2_BehindCameraNeverRasterized ==
    Rasterized =>
        LET P == FramePoints
        IN \A c \in Cells :
            depth_buffer[c[1]][c[2]] # UNSET * Unit =>
                \E n \in Hits(P, c) :
                    /\ P[n].front
                    /\ depth_buffer[c[1]][c[2]] = P[n].depth

\* C6: getIllum makes no out-of-range access to the ramp for any depth the
\* depth buffer holds when render flushes it.
C6_GetIllumInRange ==
    Rasterized =>
        \A c \in Cells : ~getIllum_raises(depth_buffer[c[1]][c[2]])

\* C8: both grids are reset every frame: after the last geometry of a frame,
\* a cell whose depth is unset holds the default color.
C8_ColorResetEveryFrame ==
    Rasterized =>
        \A c \in Cells :
            depth_buffer[c[1]][c[2]] = UNSET * Unit =>
                color_buffer[c[1]][c[2]] = DEFAULT_COLOR

\* C9: a user interrupt takes effect only between frames, never once render
\* has started a frame and before it has refreshed the display.
C9_InterruptOnlyBetweenFrames ==
    [][pc' = "interrupted" => pc \in {"render", "rotate", "sleep"}]_vars

\* floor(c + size/2) for c = cn/q, with the half not rounded
HalfSizeCell(cn, q, size) == ((2 * cn) + (size * q)) \div (2 * q)

\* floor(c) + (size div 2) for c = cn/q
FloorHalfCell(cn, q, size) == (cn \div q) + (size \div 2)

\* C10 as stated: the cells render has set after the last geometry of a
\* frame are the cells <<floor(y_sign*y + H/2), floor(x + W/2)>> of the
\* projected points (x, y) that lie in the window, for y_sign 1 or -1.
C10_PixelHalfSize ==
    Rasterized =>
        LET P == FramePoints
        IN \E y_sign \in {1, -1} :
            LET at == [n \in DOMAIN P |->
                        <<HalfSizeCell(y_sign * P[n].y[1], P[n].y[2], window_height),
                          HalfSizeCell(P[n].x[1], P[n].x[2], window_width)>>]
            IN \A c \in Cells :
                depth_buffer[c[1]][c[2]] # UNSET * Unit <=>
                    \E n \in DOMAIN P : at[n] = c

\* C10, amended: the column is floor(x) + (W div 2) and the row is
\* floor(y) + (H div 2), half the size rounded down and y_sign = 1: the cells
\* render has set after the last geometry of a frame are these cells of the
\* projected points, as far as they lie in [0,W) x [0,H), and a set cell
\* holds the depth of a point mapped to it.
C10_PixelFloorHalf ==
    Rasterized =>
        LET P == FramePoints
            at == [n \in DOMAIN P |->
                    <<FloorHalfCell(P[n].y[1], P[n].y[2], window_height),
                      FloorHalfCell(P[n].x[1], P[n].x[2], window_width)>>]
        IN /\ DOMAIN depth_buffer = 0..(window_height - 1)
           /\ \A y \in DOMAIN depth_buffer :
                DOMAIN depth_buffer[y] = 0..(window_width - 1)
           /\ \A c \in Cells :
                IF \A n \in DOMAIN P : at[n] # c
                THEN depth_buffer[c[1]][c[2]] = UNSET * Unit
                ELSE \E n \in DOMAIN P :
                        at[n] = c /\ depth_buffer[c[1]][c[2]] = P[n].depth

\* C10's case: the window has an odd width, a point that the stated formula
\* puts in another column has been written, and a point outside the window
\* has been skipped.
C10_Witness ==
    /\ Rasterized
    /\ window_width % 2 = 1
    /\ LET P == FramePoints
       IN /\ \E n \in DOMAIN P :
                /\ P[n].cell \in Cells
                /\ HalfSizeCell(P[n].x[1], P[n].x[2], window_width) # P[n].cell[2]
                /\ depth_buffer[P[n].cell[1]][P[n].cell[2]] = P[n].depth
          /\ \E n \in DOMAIN P : P[n].cell \notin Cells

\* the interval num/den lies in (0, 1]
InHalfOpenUnit(interval) == interval[1] > 0 /\ interval[1] <= interval[2]

\* n choose 2 and n choose 3
Choose2(n) == (n * (n - 1)) \div 2

Choose3(n) == (n * (n - 1) * (n - 2)) \div 6

\* C3: generate_edges and generate_surfaces fail with a validation error,
\* before emitting any point, for every interval outside (0,1], and do not
\* fail for an interval inside it.
C3_IntervalValidated ==
    t_call # "none" =>
        IF InHalfOpenUnit(t_interval)
        THEN t_result.status # "error"
        ELSE t_result.status = "error" /\ t_result.points = <<>>

\* C4: generate_surfaces samples exactly the C(n,3) triples of pairwise
\* distinct indices, none twice in any order; two vertices yield no point.
C4_SurfaceTriplesDistinct ==
    (t_call = "surfaces" /\ t_result.status = "ok") =>
        LET n == Len(t_geom.vertices)
            triples == t_result.swept
        IN /\ Len(triples) = Choose3(n)
           /\ \A a \in DOMAIN triples :
                /\ triples[a][1] # triples[a][2]
                /\ triples[a][1] # triples[a][3]
                /\ triples[a][2] # triples[a][3]
           /\ \A a, b \in DOMAIN triples :
                a # b => { triples[a][1], triples[a][2], triples[a][3] }
                         # { triples[b][1], triples[b][2], triples[b][3] }
           /\ n = 2 => t_result.points = <<>>

\* C5: generate_edges sweeps exactly C(n,2) pairs: no pair (i,i), and for
\* every two different indices exactly one of (i,j) and (j,i), once.
C5_EdgePairsOnce ==
    (t_call = "edges" /\ t_result.status = "ok") =>
        LET n == Len(t_geom.vertices)
            pairs == t_result.swept
        IN /\ Len(pairs) = Choose2(n)
           /\ \A a \in DOMAIN pairs : pairs[a][1] # pairs[a][2]
           /\ \A i, j \in 0..(n - 1) :
                i < j => Cardinality({ a \in DOMAIN pairs :
                            pairs[a] = <<i, j>> \/ pairs[a] = <<j, i>> }) = 1

\* C5's case: generate_edges has returned for three vertices.
C5_Witness ==
    /\ t_call = "edges"
    /\ t_result.status = "ok"
    /\ Len(t_geom.vertices) = 3
    /\ Len(t_result.swept) = 3

\* C7: with interval 1 generate_edges emits two points per swept pair
\* (i, j): first vertex j (t = 0, lerp gives v1), then vertex i (t = 1, lerp
\* gives v0), both in the geometry's color; three vertices give 6 points,
\* each one of the control vertices.
C7_UnitIntervalEndpoints ==
    (t_call = "edges" /\ t_interval = <<1, 1>>) =>
        LET n == Len(t_geom.vertices)
            pairs == t_result.swept
            pts == t_result.points
        IN /\ t_result.status = "ok"
           /\ Len(pts) = 2 * Len(pairs)
           /\ \A a \in DOMAIN pairs :
                /\ pts[(2 * a) - 1].v = t_geom.vertices[pairs[a][2] + 1].v
                /\ pts[2 * a].v = t_geom.vertices[pairs[a][1] + 1].v
           /\ \A m \in DOMAIN pts :
                /\ pts[m].color = t_geom.color
                /\ \E k \in DOMAIN t_geom.vertices : pts[m].v = t_geom.vertices[k].v
           /\ n = 3 => Len(pts) = 6

\* C7's case: generate_edges with interval 1 has returned 6 points for three
\* different vertices.
C7_Witness ==
    /\ t_call = "edges"
    /\ t_interval = <<1, 1>>
    /\ Len(t_geom.vertices) = 3
    /\ \A a, b \in DOMAIN t_geom.vertices :
        a # b => t_geom.vertices[a] # t_geom.vertices[b]
    /\ Len(t_result.points) = 6

====
